---------------------------- MODULE Spec2Model ----------------------------
(***************************************************************************)
(* A model of the lru package: a capacity-bounded cache with LRU eviction  *)
(* and lazy TTL expiry (Cache.Set, Cache.Get, New, the options and the     *)
(* cached entry), called from several goroutines under one mutex.          *)
(*                                                                         *)
(* The cache is the triple (items, evictList, elemValue):                  *)
(*   items      the map K -> *list.Element                                 *)
(*   evictList  the container/list list, as the sequence of its elements   *)
(*              (element identities), front first                         *)
(*   elemValue  Element.Value of every element that is still referenced    *)
(* Time is a counter of clock ticks; a duration is a number of ticks.      *)
(***************************************************************************)
EXTENDS Integers, Sequences, FiniteSets

(* ---------------------------- bounds ---------------------------------- *)

\* Keys are 1..NumKeys.
NumKeys == 3

\* The clock runs from 0 to MaxTime.
MaxTime == 2

\* The longest list of options given to New.
MaxOpts == 2

\* The capacity asked for by the valid WithCapacity option of the model.
SmallCap == 2

\* The duration asked for by the positive WithTTL option of the model.
SomeTTL == 1

Keys == 1..NumKeys
\* The code never inspects a value: the zero value of V and one other.
Values == {0, 1}
Threads == {1, 2}

(* ------------------------- program constants -------------------------- *)

defaultSize == 128

\* nil: the nil *list.Element, the nil error, and "no goroutine" as the
\* holder of the mutex.
Nil == 0

\* The zero value of V, returned by Get with presented = false.
ZeroValue == 0

(* ------------------------------ options ------------------------------- *)

\* var o cacheOptions: both fields zero.
ZeroOptions == [capacity |-> 0, ttl |-> 0]

\* WithCapacity without its test of the capacity.
WithCapacityUnchecked(capacity, o) == [o EXCEPT !.capacity = capacity]

\* WithCapacity(capacity), as the function it returns applied to o.
WithCapacity(capacity, o) ==
    IF capacity > 0 THEN [o EXCEPT !.capacity = capacity] ELSE o

\* WithTTL(ttl), as the function it returns applied to o.
WithTTL(ttl, o) ==
    IF ttl >= 0 THEN [o EXCEPT !.ttl = ttl] ELSE o

\* An Option is a record naming its constructor and argument; "nil" is the
\* nil Option.
NilOption == [name |-> "nil", arg |-> 0]

OptCapacity(n) == [name |-> "WithCapacity", arg |-> n]

OptTTL(d) == [name |-> "WithTTL", arg |-> d]

\* opt(&o), skipped for a nil option.
ApplyOption(opt, o) ==
    IF opt.name = "nil" THEN o
    ELSE IF opt.name = "WithCapacity" THEN WithCapacity(opt.arg, o)
    ELSE WithTTL(opt.arg, o)

RECURSIVE ApplyOptions(_, _)
\* for _, opt := range opts { ... }
ApplyOptions(opts, o) ==
    IF opts = <<>> THEN o
    ELSE ApplyOptions(Tail(opts), ApplyOption(Head(opts), o))

\* New(opts...): the capacity and ttl of the cache it returns, and the error.
New(opts) ==
    LET o == ApplyOptions(opts, ZeroOptions)
    IN  [capacity |-> IF o.capacity <= 0 THEN defaultSize ELSE o.capacity,
         ttl      |-> o.ttl,
         err      |-> Nil]

\* The options the model passes to New.
Options ==
    {NilOption, OptCapacity(-5), OptCapacity(0), OptCapacity(SmallCap),
     OptCapacity(SmallCap + 1), OptTTL(-1), OptTTL(0), OptTTL(SomeTTL)}

OptionLists ==
    UNION {[1..n -> Options] : n \in 0..MaxOpts}

(* --------------------------- cached entry ----------------------------- *)

\* cached[K, V]{key, value, expiredAt}
cached(k, v, expires) == [key |-> k, value |-> v, expiredAt |-> expires]

\* expired with "not after" for "before".
expiredInclusive(c, t) == c.expiredAt <= t

\* expired one tick late.
expiredLate(c, t) == c.expiredAt + 1 < t

\* c.expired(now): c.expiredAt.Before(now)
expired(c, t) == c.expiredAt < t

(* -------------------------- container/list ---------------------------- *)

InList(l, e) == \E i \in 1..Len(l) : l[i] = e

Without(l, e) == SelectSeq(l, LAMBDA x : x # e)

\* l.Len()
ListLen(l) == Len(l)

\* Back taking the wrong end of the list.
BackIsFront(l) == IF Len(l) = 0 THEN Nil ELSE l[1]

\* l.Back(): the last element, or nil for an empty list.
Back(l) == IF Len(l) = 0 THEN Nil ELSE l[Len(l)]

\* l.Remove(e): nothing when e is not an element of l.
Remove(l, e) == IF InList(l, e) THEN Without(l, e) ELSE l

\* MoveToFront taking the element to the wrong end of the list.
MoveToBack(l, e) ==
    IF ~InList(l, e) THEN l ELSE Without(l, e) \o <<e>>

\* l.MoveToFront(e): nothing when e is not an element of l or is the front.
MoveToFront(l, e) ==
    IF ~InList(l, e) \/ l[1] = e THEN l ELSE <<e>> \o Without(l, e)

\* l.PushFront(v), for the element e allocated to hold v.
PushFront(l, e) == <<e>> \o l


(* ------------------------------- state -------------------------------- *)

VARIABLES
    capacity,   \* Cache.capacity
    ttl,        \* Cache.ttl
    items,      \* Cache.items: key -> element
    evictList,  \* Cache.evictList: the elements, front first
    elemValue,  \* Element.Value of the elements still referenced
    lock,       \* Cache.lock: Nil, or the goroutine holding it
    now,        \* the clock read by time.Now()
    pc,         \* where each goroutine is in its call
    arg,        \* the call's k, v and its local expires
    res,        \* the results (value, presented) of a Get about to return
    pre,        \* history: the entries, front first, when the lock was taken
    lockedAt,   \* history: the clock when the lock was taken
    setOrder,   \* history: the keys set, the latest set first
    onlySets,   \* history: no Get has run yet
    lastUsed,   \* history: the key of the latest Set or successful Get
    lastSet,    \* history: per key, the latest Set that took effect
    afterSet,   \* history: the Get was called after that Set returned, the
                \* clock not advanced since
    newOpts,    \* history: the options New was called with
    missed,     \* history: per key, how many Gets of it have returned false
                \* since the latest Set of it took effect (2: two or more)
    overwrote   \* history: the Set of a cached key that was the latest call

cacheVars == <<items, evictList, elemValue>>

vars == <<capacity, ttl, items, evictList, elemValue, lock, now, pc, arg, res,
          pre, lockedAt, setOrder, onlySets, lastUsed, lastSet, afterSet,
          newOpts, missed, overwrote>>

NoArg == [k |-> 0, v |-> ZeroValue, expires |-> 0]

NoRes == [value |-> ZeroValue, presented |-> FALSE]

\* The cache as one value.
Cache == [items |-> items, evictList |-> evictList, elemValue |-> elemValue]

\* make(map[K]*list.Element), list.New()
EmptyCache == [items |-> <<>>, evictList |-> <<>>, elemValue |-> <<>>]

(* ------------------------- maps and elements -------------------------- *)

Min(a, b) == IF a <= b THEN a ELSE b

Range(f) == {f[x] : x \in DOMAIN f}

\* m[k] = e
MapPut(m, k, e) == [x \in DOMAIN m \cup {k} |-> IF x = k THEN e ELSE m[x]]

\* delete(m, k)
MapDelete(m, k) == [x \in DOMAIN m \ {k} |-> m[x]]

\* The elements a cache still references, from its list or from its map.
Referenced(its, l) == Range(l) \cup Range(its)

\* The element allocated by PushFront: one that nothing references.
NewElement(its, l) ==
    LET used == Referenced(its, l)
    IN  CHOOSE e \in 1..(Cardinality(used) + 1) :
            e \notin used /\ \A f \in 1..(e - 1) : f \in used

\* The place of e in the list l (e is an element of l).
IndexOf(l, e) == CHOOSE i \in 1..Len(l) : l[i] = e

\* Element identities are addresses, of which only equality is observable:
\* Name(its, l, e) is the canonical name of e, its place in the list, or,
\* for an element the map references that is not in the list, a place after
\* the list.
Name(its, l, e) ==
    IF InList(l, e) THEN IndexOf(l, e)
    ELSE Len(l) + Cardinality({f \in Range(its) : ~InList(l, f) /\ f <= e})

\* The cache with every referenced element under its canonical name, and the
\* elements that nothing references any more dropped (collected).
Canonical(c) ==
    LET its == c.items
        l   == c.evictList
        old == [n \in {Name(its, l, e) : e \in Referenced(its, l)} |->
                   CHOOSE e \in Referenced(its, l) : Name(its, l, e) = n]
    IN  [items     |-> [k \in DOMAIN its |-> Name(its, l, its[k])],
         evictList |-> [i \in 1..Len(l) |-> i],
         elemValue |-> [n \in DOMAIN old |-> c.elemValue[old[n]]]]

(* ----------------------------- Cache.Set ------------------------------ *)

\* SetPresent without the replacement of the element's Value.
SetPresentNoReplace(c, k, v, expires) ==
    LET e == c.items[k]
    IN  [items     |-> c.items,
         evictList |-> MoveToFront(c.evictList, e),
         elemValue |-> c.elemValue]

\* SetPresent without the MoveToFront.
SetPresentNoMove(c, k, v, expires) ==
    LET e == c.items[k]
    IN  [items     |-> c.items,
         evictList |-> c.evictList,
         elemValue |-> [c.elemValue EXCEPT ![e] = cached(k, v, expires)]]

\* Set, k present: the element's Value is replaced and it moves to the front.
SetPresent(c, k, v, expires) ==
    LET e == c.items[k]
    IN  [items     |-> c.items,
         evictList |-> MoveToFront(c.evictList, e),
         elemValue |-> [c.elemValue EXCEPT ![e] = cached(k, v, expires)]]

\* MustEvict with > for >=.
MustEvictOffByOne(c, cap) ==
    ListLen(c.evictList) > cap /\ Back(c.evictList) # Nil

\* Set, k absent: whether the back of the list is removed first.
MustEvict(c, cap) == ListLen(c.evictList) >= cap /\ Back(c.evictList) # Nil

\* Evict without the delete from the map.
EvictKeepsKey(c) ==
    LET last == Back(c.evictList)
    IN  [items     |-> c.items,
         evictList |-> Remove(c.evictList, last),
         elemValue |-> c.elemValue]

\* Evict removing every entry.
EvictAll(c) == [items |-> <<>>, evictList |-> <<>>, elemValue |-> c.elemValue]

\* Set, k absent: the back of the list is removed, and its key from the map.
Evict(c) ==
    LET last == Back(c.evictList)
        val  == c.elemValue[last]
    IN  [items     |-> MapDelete(c.items, val.key),
         evictList |-> Remove(c.evictList, last),
         elemValue |-> c.elemValue]

\* Set, k absent: a new element holding the entry is pushed to the front.
Insert(c, k, v, expires) ==
    LET e == NewElement(c.items, c.evictList)
    IN  [items     |-> MapPut(c.items, k, e),
         evictList |-> PushFront(c.evictList, e),
         elemValue |-> MapPut(c.elemValue, e, cached(k, v, expires))]

\* The body of Set under the lock.
SetCache(c, k, v, expires, cap) ==
    LET d == IF k \in DOMAIN c.items THEN SetPresent(c, k, v, expires)
             ELSE Insert(IF MustEvict(c, cap) THEN Evict(c) ELSE c,
                         k, v, expires)
    IN  Canonical(d)

(* ----------------------------- Cache.Get ------------------------------ *)

\* GetHit without the test that the TTL is used.
GetHitNoTTLCheck(c, k, t, d) ==
    /\ k \in DOMAIN c.items
    /\ ~expired(c.elemValue[c.items[k]], t)

\* Get: whether it returns value, true.
GetHit(c, k, t, d) ==
    /\ k \in DOMAIN c.items
    /\ ~(d # 0 /\ expired(c.elemValue[c.items[k]], t))

\* GetResult returning presented = true on every path.
GetResultAlwaysPresented(c, k, t, d) ==
    IF GetHit(c, k, t, d)
    THEN [value |-> c.elemValue[c.items[k]].value, presented |-> TRUE]
    ELSE [value |-> ZeroValue, presented |-> TRUE]

\* GetResult returning the value of the entry it finds expired.
GetResultStale(c, k, t, d) ==
    IF k \in DOMAIN c.items
    THEN [value |-> c.elemValue[c.items[k]].value,
          presented |-> GetHit(c, k, t, d)]
    ELSE [value |-> ZeroValue, presented |-> FALSE]

\* Get: the results (value, presented).
GetResult(c, k, t, d) ==
    IF GetHit(c, k, t, d)
    THEN [value |-> c.elemValue[c.items[k]].value, presented |-> TRUE]
    ELSE [value |-> ZeroValue, presented |-> FALSE]

\* GetCache removing the entry it finds expired.
GetCacheEvictExpired(c, k, t, d) ==
    IF GetHit(c, k, t, d)
    THEN Canonical([c EXCEPT
             !.evictList = MoveToFront(c.evictList, c.items[k])])
    ELSE IF k \in DOMAIN c.items
    THEN Canonical([items     |-> MapDelete(c.items, k),
                    evictList |-> Remove(c.evictList, c.items[k]),
                    elemValue |-> c.elemValue])
    ELSE c

\* GetCache giving the entry it finds a new expiry.
GetCacheRefreshExpiry(c, k, t, d) ==
    IF GetHit(c, k, t, d)
    THEN LET e == c.items[k]
         IN  Canonical([items     |-> c.items,
                        evictList |-> MoveToFront(c.evictList, e),
                        elemValue |-> [c.elemValue EXCEPT
                                          ![e].expiredAt = t + d]])
    ELSE c

\* GetCache without the MoveToFront.
GetCacheNoMove(c, k, t, d) == c

\* Get: the cache it leaves.
GetCache(c, k, t, d) ==
    IF GetHit(c, k, t, d)
    THEN Canonical([c EXCEPT
             !.evictList = MoveToFront(c.evictList, c.items[k])])
    ELSE c

(* ------------------------------ history ------------------------------- *)

\* The entries of the cache, front first.
Entries(c) == [i \in 1..Len(c.evictList) |-> c.elemValue[c.evictList[i]]]

\* The keys of a sequence of entries, in its order.
KeysOf(es) == [i \in 1..Len(es) |-> es[i].key]

\* The options of New are not followed.
NotFollowed == [followed |-> FALSE, opts |-> <<>>]

\* The options of New are followed: they were opts.
Followed(opts) == [followed |-> TRUE, opts |-> opts]

\* The latest call was not a Set of a key already in the index.
NoOverwrite == [k |-> 0, was |-> ZeroValue, v |-> ZeroValue, expires |-> 0,
                retAt |-> -1]

\* No Set of the key has taken effect yet.
NoSet == [set |-> FALSE, v |-> ZeroValue, readAt |-> 0, retAt |-> -1]

(* ------------------------------ actions ------------------------------- *)

\* Lock that never waits.
CanLockAlways(t) == TRUE

\* sync.Mutex.Lock: the mutex is free.
CanLock(t) == lock = Nil

\* New(opts...), for a list of options among optLists; newOpts is the list
\* when follow is true.
InitWith(optLists, follow) ==
    /\ \E opts \in optLists :
           /\ capacity = New(opts).capacity
           /\ ttl = New(opts).ttl
           /\ newOpts = IF follow THEN Followed(opts) ELSE NotFollowed
    /\ items = EmptyCache.items
    /\ evictList = EmptyCache.evictList
    /\ elemValue = EmptyCache.elemValue
    /\ lock = Nil
    /\ now = 0
    /\ pc = [t \in Threads |-> "idle"]
    /\ arg = [t \in Threads |-> NoArg]
    /\ res = [t \in Threads |-> NoRes]
    /\ pre = [t \in Threads |-> <<>>]
    /\ lockedAt = [t \in Threads |-> 0]
    /\ setOrder = <<>>
    /\ onlySets = TRUE
    /\ lastUsed = 0
    /\ lastSet = [k \in Keys |-> NoSet]
    /\ afterSet = [t \in Threads |-> FALSE]
    /\ missed = [k \in Keys |-> 0]
    /\ overwrote = NoOverwrite

\* A clock that also goes back.
TickEitherWay ==
    /\ \E n \in {now - 1, now + 1} : n \in 0..MaxTime /\ now' = n
    /\ UNCHANGED <<capacity, ttl, cacheVars, lock, pc, arg, res, pre, lockedAt>>

\* The clock advances.
Tick ==
    /\ now < MaxTime
    /\ now' = now + 1
    /\ UNCHANGED <<capacity, ttl, cacheVars, lock, pc, arg, res, pre, lockedAt>>

\* Set(k, v) is called: expires := time.Now().Add(c.ttl)
SetCall(t, k, v) ==
    /\ pc[t] = "idle"
    /\ pc' = [pc EXCEPT ![t] = "set_lock"]
    /\ arg' = [arg EXCEPT ![t] = [k |-> k, v |-> v, expires |-> now + ttl]]
    /\ UNCHANGED <<capacity, ttl, cacheVars, lock, now, res, pre, lockedAt>>

\* Set: c.lock.Lock()
SetLock(t) ==
    /\ pc[t] = "set_lock"
    /\ CanLock(t)
    /\ lock' = t
    /\ pc' = [pc EXCEPT ![t] = "set_body"]
    /\ pre' = [pre EXCEPT ![t] = Entries(Cache)]
    /\ lockedAt' = [lockedAt EXCEPT ![t] = now]
    /\ UNCHANGED <<capacity, ttl, cacheVars, now, arg, res>>

\* Set: the body under the lock, up to its return statement.
SetBody(t) ==
    /\ pc[t] = "set_body"
    /\ LET c == SetCache(Cache, arg[t].k, arg[t].v, arg[t].expires, capacity)
       IN  /\ items' = c.items
           /\ evictList' = c.evictList
           /\ elemValue' = c.elemValue
    /\ pc' = [pc EXCEPT ![t] = "set_unlock"]
    /\ lockedAt' = [lockedAt EXCEPT ![t] = 0]
    /\ UNCHANGED <<capacity, ttl, lock, now, arg, res, pre>>

\* SetUnlock returning without the Unlock.
SetUnlockKeepsLock(t) ==
    /\ pc[t] = "set_unlock"
    /\ lock' = lock
    /\ pc' = [pc EXCEPT ![t] = "idle"]
    /\ arg' = [arg EXCEPT ![t] = NoArg]
    /\ pre' = [pre EXCEPT ![t] = <<>>]
    /\ UNCHANGED <<capacity, ttl, cacheVars, now, res, lockedAt>>

\* Set: the deferred c.lock.Unlock(), and the return.
SetUnlock(t) ==
    /\ pc[t] = "set_unlock"
    /\ lock' = Nil
    /\ pc' = [pc EXCEPT ![t] = "idle"]
    /\ arg' = [arg EXCEPT ![t] = NoArg]
    /\ pre' = [pre EXCEPT ![t] = <<>>]
    /\ UNCHANGED <<capacity, ttl, cacheVars, now, res, lockedAt>>

\* Get(k) is called.
GetCall(t, k) ==
    /\ pc[t] = "idle"
    /\ pc' = [pc EXCEPT ![t] = "get_lock"]
    /\ arg' = [arg EXCEPT ![t] = [k |-> k, v |-> ZeroValue, expires |-> 0]]
    /\ UNCHANGED <<capacity, ttl, cacheVars, lock, now, res, pre, lockedAt>>

\* Get: c.lock.Lock()
GetLock(t) ==
    /\ pc[t] = "get_lock"
    /\ CanLock(t)
    /\ lock' = t
    /\ pc' = [pc EXCEPT ![t] = "get_body"]
    /\ pre' = [pre EXCEPT ![t] = Entries(Cache)]
    /\ lockedAt' = [lockedAt EXCEPT ![t] = now]
    /\ UNCHANGED <<capacity, ttl, cacheVars, now, arg, res>>

\* Get: the body under the lock, with its read of time.Now().
GetBody(t) ==
    /\ pc[t] = "get_body"
    /\ LET c == GetCache(Cache, arg[t].k, now, ttl)
       IN  /\ items' = c.items
           /\ evictList' = c.evictList
           /\ elemValue' = c.elemValue
    /\ res' = [res EXCEPT ![t] = GetResult(Cache, arg[t].k, now, ttl)]
    /\ pc' = [pc EXCEPT ![t] = "get_unlock"]
    /\ lockedAt' = [lockedAt EXCEPT ![t] = 0]
    /\ UNCHANGED <<capacity, ttl, lock, now, arg, pre>>

\* Get: the deferred c.lock.Unlock(), and the return of (value, presented).
GetUnlock(t) ==
    /\ pc[t] = "get_unlock"
    /\ lock' = Nil
    /\ pc' = [pc EXCEPT ![t] = "idle"]
    /\ arg' = [arg EXCEPT ![t] = NoArg]
    /\ res' = [res EXCEPT ![t] = NoRes]
    /\ pre' = [pre EXCEPT ![t] = <<>>]
    /\ UNCHANGED <<capacity, ttl, cacheVars, now, lockedAt>>

(* ---------------------- the steps, as they are seen -------------------- *)

\* The step is the body of a Set by t.
IsSetBody(t) == pc[t] = "set_body" /\ pc'[t] = "set_unlock"

\* The step is the return of a Set by t.
IsSetReturn(t) == pc[t] = "set_unlock" /\ pc'[t] = "idle"

\* The step is the body of a Get by t.
IsGetBody(t) == pc[t] = "get_body" /\ pc'[t] = "get_unlock"

\* The step is the call of a Get by t.
IsGetCall(t) == pc[t] = "idle" /\ pc'[t] = "get_lock"

\* The step is the call of a Set by t.
IsSetCall(t) == pc[t] = "idle" /\ pc'[t] = "set_lock"

\* The step is the return of a Get by t.
IsGetReturn(t) == pc[t] = "get_unlock" /\ pc'[t] = "idle"

\* The step is a tick of the clock.
IsTick == now' # now

(* ------------------------- history variables -------------------------- *)

\* setOrder and onlySets: while only Sets have run, the distinct keys set so
\* far, the latest set first. lastUsed: the key of the latest Set that took
\* effect or Get that returned presented = true (0: none yet).
RecordSetOrder ==
    /\ onlySets' = (onlySets /\ ~\E t \in Threads : IsGetBody(t))
    /\ lastUsed' =
          IF \E t \in Threads : IsSetBody(t) \/ (IsGetBody(t) /\ res'[t].presented)
          THEN LET t == CHOOSE u \in Threads :
                            IsSetBody(u) \/ (IsGetBody(u) /\ res'[u].presented)
               IN  arg[t].k
          ELSE lastUsed
    /\ setOrder' =
          IF ~onlySets' THEN <<>>
          ELSE IF \E t \in Threads : IsSetBody(t)
          THEN LET t == CHOOSE u \in Threads : IsSetBody(u)
               IN  <<arg[t].k>> \o Without(setOrder, arg[t].k)
          ELSE setOrder

\* missed: for each key, how many Gets of it have returned presented = false
\* since the latest Set of it took effect, counted up to 2.
RecordMissed ==
    missed' =
        [k \in Keys |->
            IF \E t \in Threads : IsSetBody(t) /\ arg[t].k = k THEN 0
            ELSE IF \E t \in Threads :
                        IsGetBody(t) /\ arg[t].k = k /\ ~res'[t].presented
            THEN Min(missed[k] + 1, 2)
            ELSE missed[k]]

\* overwrote: when the latest call is a Set(k, v) that found k in the index,
\* the key, the value it replaced (was), v, the expiry it stored and the
\* clock when it returned (retAt, -1 until it returns); it is kept until the
\* next call, a Get, returns, or the next Set runs its body.
RecordOverwrote ==
    overwrote' =
        IF \E t \in Threads : IsSetBody(t)
        THEN LET t == CHOOSE u \in Threads : IsSetBody(u)
             IN  IF arg[t].k \in DOMAIN items
                 THEN [k |-> arg[t].k, was |-> elemValue[items[arg[t].k]].value,
                       v |-> arg[t].v, expires |-> arg[t].expires, retAt |-> -1]
                 ELSE NoOverwrite
        ELSE IF \E t \in Threads : IsSetReturn(t) /\ arg[t].k = overwrote.k
        THEN [overwrote EXCEPT !.retAt = now]
        ELSE IF \E t \in Threads : IsGetReturn(t) THEN NoOverwrite
        ELSE overwrote

\* lastSet: for each key, the latest Set of it that took effect: its value,
\* the clock it read (readAt) and the clock when it returned (retAt, -1
\* until it returns). afterSet: for a Get in progress, whether it was called
\* after that Set returned, with the clock not advanced and no other Set of
\* the key having taken effect since.
RecordLastSet ==
    /\ lastSet' =
        [k \in Keys |->
            IF \E t \in Threads : IsSetBody(t) /\ arg[t].k = k
            THEN LET t == CHOOSE u \in Threads : IsSetBody(u) /\ arg[u].k = k
                 IN  [set |-> TRUE, v |-> arg[t].v,
                      readAt |-> arg[t].expires - ttl, retAt |-> -1]
            ELSE IF \E t \in Threads : IsSetReturn(t) /\ arg[t].k = k
            THEN [lastSet[k] EXCEPT !.retAt = now]
            ELSE lastSet[k]]
    /\ afterSet' =
        [t \in Threads |->
            IF IsGetCall(t) THEN lastSet[arg'[t].k].retAt = now
            ELSE IF pc'[t] \notin {"get_lock", "get_body"} THEN FALSE
            ELSE IF IsTick THEN FALSE
            ELSE IF \E u \in Threads : IsSetBody(u) /\ arg[u].k = arg[t].k
            THEN FALSE
            ELSE afterSet[t]]

\* The history variables a specification does not follow stay as they are.
NoHistory ==
    UNCHANGED <<setOrder, onlySets, lastUsed, lastSet, afterSet, newOpts,
                missed, overwrote>>

SetOrderHistory ==
    RecordSetOrder /\ UNCHANGED <<lastSet, afterSet, newOpts, missed, overwrote>>

MissedHistory ==
    RecordMissed /\ UNCHANGED <<setOrder, onlySets, lastUsed, lastSet, afterSet,
                                newOpts, overwrote>>

OverwroteHistory ==
    RecordOverwrote /\ UNCHANGED <<setOrder, onlySets, lastUsed, lastSet,
                                   afterSet, newOpts, missed>>

LastSetHistory ==
    RecordLastSet /\ UNCHANGED <<setOrder, onlySets, lastUsed, newOpts, missed,
                                 overwrote>>

\* The goroutine of the specification with one goroutine.
SeqThreads == {1}

\* The keys of the specification whose keys never fill the cache.
FewKeys == 1..(NumKeys - 1)

\* The key of the specification that follows the options of New.
OneKey == {1}

(* --------------------------- specifications --------------------------- *)

\* Two goroutines, all keys, a cache of the small capacity with a TTL.
ConcOptionLists == {<<OptCapacity(SmallCap), OptTTL(SomeTTL)>>}

Init == InitWith(ConcOptionLists, FALSE)

Next ==
    \/ Tick /\ NoHistory
    \/ \E t \in Threads, k \in Keys, v \in Values : SetCall(t, k, v) /\ NoHistory
    \/ \E t \in Threads : SetLock(t) /\ NoHistory
    \/ \E t \in Threads : SetBody(t) /\ NoHistory
    \/ \E t \in Threads : SetUnlock(t) /\ NoHistory
    \/ \E t \in Threads, k \in Keys : GetCall(t, k) /\ NoHistory
    \/ \E t \in Threads : GetLock(t) /\ NoHistory
    \/ \E t \in Threads : GetBody(t) /\ NoHistory
    \/ \E t \in Threads : GetUnlock(t) /\ NoHistory

Spec == Init /\ [][Next]_vars

\* One goroutine, all keys, every list of options that gives the small
\* capacity, with or without a TTL.
SeqOptionLists == {opts \in OptionLists : New(opts).capacity = SmallCap}

SeqInit == InitWith(SeqOptionLists, FALSE)

SeqNext ==
    \/ Tick /\ SetOrderHistory
    \/ \E t \in SeqThreads, k \in Keys, v \in Values : SetCall(t, k, v) /\ SetOrderHistory
    \/ \E t \in SeqThreads : SetLock(t) /\ SetOrderHistory
    \/ \E t \in SeqThreads : SetBody(t) /\ SetOrderHistory
    \/ \E t \in SeqThreads : SetUnlock(t) /\ SetOrderHistory
    \/ \E t \in SeqThreads, k \in Keys : GetCall(t, k) /\ SetOrderHistory
    \/ \E t \in SeqThreads : GetLock(t) /\ SetOrderHistory
    \/ \E t \in SeqThreads : GetBody(t) /\ SetOrderHistory
    \/ \E t \in SeqThreads : GetUnlock(t) /\ SetOrderHistory

SeqSpec == SeqInit /\ [][SeqNext]_vars

\* Two goroutines, fewer keys than the capacity, a cache with a TTL.
TTLOptionLists == {<<OptTTL(SomeTTL)>>}

TTLInit == InitWith(TTLOptionLists, FALSE)

TTLNext ==
    \/ Tick /\ LastSetHistory
    \/ \E t \in Threads, k \in FewKeys, v \in Values : SetCall(t, k, v) /\ LastSetHistory
    \/ \E t \in Threads : SetLock(t) /\ LastSetHistory
    \/ \E t \in Threads : SetBody(t) /\ LastSetHistory
    \/ \E t \in Threads : SetUnlock(t) /\ LastSetHistory
    \/ \E t \in Threads, k \in FewKeys : GetCall(t, k) /\ LastSetHistory
    \/ \E t \in Threads : GetLock(t) /\ LastSetHistory
    \/ \E t \in Threads : GetBody(t) /\ LastSetHistory
    \/ \E t \in Threads : GetUnlock(t) /\ LastSetHistory

TTLSpec == TTLInit /\ [][TTLNext]_vars

\* The goroutine t goes from one place of its call to the next. A body under
\* the lock has no other condition than the place, and it is the only step
\* that takes t from the body to the Unlock.
Runs(t, from, to) == pc[t] = from /\ pc' = [pc EXCEPT ![t] = to]

\* The goroutines are scheduled fairly: one that can run its body or its
\* Unlock does so, and one that waits in Lock gets the mutex if it is free
\* again and again (sync.Mutex hands the mutex to a starving waiter).
Fairness ==
    \A t \in Threads :
        /\ SF_vars(SetLock(t) /\ NoHistory)
        /\ WF_pc(Runs(t, "set_body", "set_unlock"))
        /\ WF_vars(SetUnlock(t) /\ NoHistory)
        /\ SF_vars(GetLock(t) /\ NoHistory)
        /\ WF_pc(Runs(t, "get_body", "get_unlock"))
        /\ WF_vars(GetUnlock(t) /\ NoHistory)

\* Two goroutines under fair scheduling, fewer keys, a cache with a TTL and
\* a capacity below the number of keys.
LiveOptionLists == {<<OptCapacity(SmallCap - 1), OptTTL(SomeTTL)>>}

LiveInit == InitWith(LiveOptionLists, FALSE)

LiveNext ==
    \/ Tick /\ NoHistory
    \/ \E t \in Threads, k \in FewKeys, v \in Values : SetCall(t, k, v) /\ NoHistory
    \/ \E t \in Threads : SetLock(t) /\ NoHistory
    \/ \E t \in Threads : SetBody(t) /\ NoHistory
    \/ \E t \in Threads : SetUnlock(t) /\ NoHistory
    \/ \E t \in Threads, k \in FewKeys : GetCall(t, k) /\ NoHistory
    \/ \E t \in Threads : GetLock(t) /\ NoHistory
    \/ \E t \in Threads : GetBody(t) /\ NoHistory
    \/ \E t \in Threads : GetUnlock(t) /\ NoHistory

LiveSpec == LiveInit /\ [][LiveNext]_vars /\ Fairness

\* One goroutine, all keys, a cache of the small capacity with a TTL; the
\* Gets that return false are followed.
MissInit == InitWith(ConcOptionLists, FALSE)

MissNext ==
    \/ Tick /\ MissedHistory
    \/ \E t \in SeqThreads, k \in Keys, v \in Values : SetCall(t, k, v) /\ MissedHistory
    \/ \E t \in SeqThreads : SetLock(t) /\ MissedHistory
    \/ \E t \in SeqThreads : SetBody(t) /\ MissedHistory
    \/ \E t \in SeqThreads : SetUnlock(t) /\ MissedHistory
    \/ \E t \in SeqThreads, k \in Keys : GetCall(t, k) /\ MissedHistory
    \/ \E t \in SeqThreads : GetLock(t) /\ MissedHistory
    \/ \E t \in SeqThreads : GetBody(t) /\ MissedHistory
    \/ \E t \in SeqThreads : GetUnlock(t) /\ MissedHistory

MissSpec == MissInit /\ [][MissNext]_vars

\* One goroutine, all keys, every list of options that gives the small
\* capacity, with or without a TTL; the Sets of cached keys are followed.
OverInit == InitWith(SeqOptionLists, FALSE)

OverNext ==
    \/ Tick /\ OverwroteHistory
    \/ \E t \in SeqThreads, k \in Keys, v \in Values : SetCall(t, k, v) /\ OverwroteHistory
    \/ \E t \in SeqThreads : SetLock(t) /\ OverwroteHistory
    \/ \E t \in SeqThreads : SetBody(t) /\ OverwroteHistory
    \/ \E t \in SeqThreads : SetUnlock(t) /\ OverwroteHistory
    \/ \E t \in SeqThreads, k \in Keys : GetCall(t, k) /\ OverwroteHistory
    \/ \E t \in SeqThreads : GetLock(t) /\ OverwroteHistory
    \/ \E t \in SeqThreads : GetBody(t) /\ OverwroteHistory
    \/ \E t \in SeqThreads : GetUnlock(t) /\ OverwroteHistory

OverSpec == OverInit /\ [][OverNext]_vars

\* One goroutine, one key, every list of options, which is followed.
NewInit == InitWith(OptionLists, TRUE)

NewNext ==
    \/ Tick /\ NoHistory
    \/ \E t \in SeqThreads, k \in OneKey, v \in Values : SetCall(t, k, v) /\ NoHistory
    \/ \E t \in SeqThreads : SetLock(t) /\ NoHistory
    \/ \E t \in SeqThreads : SetBody(t) /\ NoHistory
    \/ \E t \in SeqThreads : SetUnlock(t) /\ NoHistory
    \/ \E t \in SeqThreads, k \in OneKey : GetCall(t, k) /\ NoHistory
    \/ \E t \in SeqThreads : GetLock(t) /\ NoHistory
    \/ \E t \in SeqThreads : GetBody(t) /\ NoHistory
    \/ \E t \in SeqThreads : GetUnlock(t) /\ NoHistory

NewSpec == NewInit /\ [][NewNext]_vars

(* ------------------------ reading the entries ------------------------- *)

\* Whether the entries es hold key k.
HasKey(es, k) == \E i \in 1..Len(es) : es[i].key = k

\* The entry of key k among es (k is held).
EntryOf(es, k) == es[CHOOSE i \in 1..Len(es) : es[i].key = k]

\* The entries es without the entry of key k, in their order.
DropKey(es, k) == SelectSeq(es, LAMBDA e : e.key # k)

\* The key of the front entry of the list (0 for an empty list).
FrontKey(c) ==
    IF Len(c.evictList) = 0 THEN 0 ELSE c.elemValue[c.evictList[1]].key

\* The entries es without the last one.
AllButLast(es) == SubSeq(es, 1, Len(es) - 1)

(* ------------------------------- claims ------------------------------- *)

\* C1: in every state (so after every completed New, Set or Get) the index
\* has as many keys as the recency list has nodes, and at most capacity.
C1_SizeBound ==
    /\ Cardinality(DOMAIN items) = Len(evictList)
    /\ Len(evictList) <= capacity

\* C1 witness: more distinct keys than the capacity have been set, by Sets
\* alone, and the cache is full.
C1_Witness ==
    /\ onlySets
    /\ Len(setOrder) > capacity
    /\ Len(evictList) = capacity
    /\ \A t \in SeqThreads : pc[t] = "idle"

\* C2: whenever no goroutine holds the lock, the keys of the index are the
\* keys of the list nodes, no key is in two nodes, and for each key k of the
\* index items[k] is a node of the list whose entry has key k.
C2_Bijection ==
    lock = Nil =>
        /\ DOMAIN items = {elemValue[evictList[i]].key : i \in 1..Len(evictList)}
        /\ \A i, j \in 1..Len(evictList) :
               elemValue[evictList[i]].key = elemValue[evictList[j]].key => i = j
        /\ \A k \in DOMAIN items :
               /\ InList(evictList, items[k])
               /\ elemValue[items[k]].key = k

\* C2 witness: the lock is free, the cache is full with an entry evicted
\* before (a key in a call is not cached), and two goroutines are in calls.
C2_Witness ==
    /\ lock = Nil
    /\ Len(evictList) = capacity
    /\ now > 0
    /\ \E t, u \in Threads :
           /\ pc[t] = "set_lock" /\ arg[t].k \notin DOMAIN items
           /\ pc[u] = "get_lock" /\ arg[u].k \in DOMAIN items

\* C3, the step: the body of a Set(k, v) with k absent and the cache full
\* leaves the new entry followed by the old entries but the last, in their
\* order and unchanged, and the index loses the last entry's key and gains k.
C3_EvictStep ==
    \A t \in Threads :
        (IsSetBody(t) /\ arg[t].k \notin DOMAIN items
                      /\ Len(evictList) = capacity) =>
            LET es == Entries(Cache)
            IN  /\ Entries(Cache)' =
                       <<cached(arg[t].k, arg[t].v, arg[t].expires)>>
                           \o AllButLast(es)
                /\ DOMAIN items' =
                       (DOMAIN items \ {es[Len(es)].key}) \cup {arg[t].k}

\* C3, in particular: after capacity + 1 distinct keys were set, by Sets alone,
\* the one set least recently is absent and the others are present.
C3_FirstOut ==
    (onlySets /\ Len(setOrder) = capacity + 1) =>
        /\ setOrder[capacity + 1] \notin DOMAIN items
        /\ \A i \in 1..capacity : setOrder[i] \in DOMAIN items

\* C3: a Set of an absent key into a full cache removes exactly the back
\* entry, expired or not, and inserts the key at the front.
C3_Eviction == [][C3_EvictStep]_vars /\ []C3_FirstOut

\* C3 witness: a Set has evicted the back entry, not expired, of a full cache
\* whose front entry was expired.
C3_Witness ==
    \E t \in Threads :
        /\ pc[t] = "set_unlock"
        /\ Len(pre[t]) = capacity
        /\ ~HasKey(pre[t], arg[t].k)
        /\ ttl # 0
        /\ expired(pre[t][1], now)
        /\ ~expired(pre[t][Len(pre[t])], now)
        /\ Len(evictList) = capacity

\* C4: while only Sets have run, the keys in the cache, front first, are the
\* min(capacity, number of distinct keys set) keys set most recently, the
\* latest first; so with more than capacity distinct keys set they are
\* exactly the capacity keys whose last Set is most recent.
C4_MostRecentlySet ==
    onlySets =>
        /\ Len(evictList) <= capacity
        /\ KeysOf(Entries(Cache))
               = SubSeq(setOrder, 1, Min(capacity, Len(setOrder)))

\* C4 witness: every key has been set, by Sets alone, they are more than the
\* capacity, and the latest Set was of a key already cached.
C4_Witness ==
    /\ onlySets
    /\ Len(setOrder) = NumKeys
    /\ NumKeys > capacity
    /\ \E t \in Threads :
           /\ pc[t] = "set_unlock"
           /\ HasKey(pre[t], arg[t].k)
           /\ pre[t][1].key # arg[t].k

\* C5, the step: the body of a Get(k) that returns presented = true leaves
\* k's entry at the front, followed by the other entries in their order, all
\* unchanged, and the same keys in the index.
C5_HitStep ==
    \A t \in Threads :
        (IsGetBody(t) /\ res'[t].presented) =>
            LET es == Entries(Cache)
            IN  /\ HasKey(es, arg[t].k)
                /\ Entries(Cache)' =
                       <<EntryOf(es, arg[t].k)>> \o DropKey(es, arg[t].k)
                /\ DOMAIN items' = DOMAIN items

\* C5, the consequence: a Set of an absent key, with capacity at least 2,
\* keeps the key of the latest successful Get (or Set) in the cache.
C5_KeepsLastUsed ==
    \A t \in Threads :
        (IsSetBody(t) /\ arg[t].k \notin DOMAIN items
                      /\ capacity >= 2 /\ lastUsed # 0) =>
            lastUsed \in DOMAIN items'

\* C5: a successful Get moves its key to the front and changes nothing else,
\* so the next eviction spares it.
C5_RefreshOnRead == [][C5_HitStep /\ C5_KeepsLastUsed]_vars

\* C5 witness: with capacity 2 a Set of an absent key has evicted the entry
\* set later and kept the one set earlier, which a Get had moved to the front.
C5_Witness ==
    \E t \in Threads :
        /\ pc[t] = "set_unlock"
        /\ capacity = 2
        /\ Len(pre[t]) = 2
        /\ ~HasKey(pre[t], arg[t].k)
        /\ pre[t][1].expiredAt < pre[t][2].expiredAt
        /\ Len(evictList) = 2
        /\ elemValue[evictList[2]] = pre[t][1]

\* The keys used never fill the cache: no capacity pressure.
NoPressure == capacity >= Cardinality(FewKeys)

\* Get returned (zero value, false).
Missed(r) == r = [value |-> ZeroValue, presented |-> FALSE]

\* Get returned (v, true).
Found(r, v) == r = [value |-> v, presented |-> TRUE]

\* C6 as claimed, the step: with a TTL and no capacity pressure, a Get(K)
\* called after the latest Set(K, V) returned, the clock not advanced since,
\* returns (V, true); a Get(K) more than ttl after that Set returned returns
\* (zero, false).
C6_FromReturnStep ==
    \A t \in Threads :
        (IsGetBody(t) /\ ttl > 0 /\ NoPressure /\ lastSet[arg[t].k].set) =>
            LET s == lastSet[arg[t].k]
            IN  /\ afterSet[t] => Found(res'[t], s.v)
                /\ (s.retAt >= 0 /\ now > s.retAt + ttl) => Missed(res'[t])

\* C6 as claimed: the TTL of an entry runs from the return of its Set.
C6_FromReturn == [][C6_FromReturnStep]_vars

\* C6 amended, the step: with a TTL and no capacity pressure, a Get(K) that
\* reads the clock at most ttl after the clock reading of the latest Set(K, V)
\* returns (V, true), and one that reads it later returns (zero, false); so
\* does every Get(K) more than ttl after that Set returned.
C6_FromReadingStep ==
    \A t \in Threads :
        (IsGetBody(t) /\ ttl > 0 /\ NoPressure /\ lastSet[arg[t].k].set) =>
            LET s == lastSet[arg[t].k]
            IN  /\ now <= s.readAt + ttl => Found(res'[t], s.v)
                /\ now > s.readAt + ttl => Missed(res'[t])
                /\ (s.retAt >= 0 /\ now > s.retAt + ttl) => Missed(res'[t])

\* C6 amended: the TTL of an entry runs from the clock reading its Set took
\* when it was called, before it took the lock.
C6_TTLExpiry == [][C6_FromReadingStep]_vars

\* C6 witness: a Get returned (V, true) after the Set of its key returned and
\* the clock advanced, within the TTL, while the other goroutine is in a Set.
C6_Witness ==
    \E t, u \in Threads :
        /\ pc[t] = "get_unlock"
        /\ ttl > 0
        /\ res[t].presented
        /\ lastSet[arg[t].k].retAt >= 0
        /\ lastSet[arg[t].k].retAt < now
        /\ pc[u] = "set_lock"

\* C7, the step: without a TTL a Get of a key of the index returns its value
\* and true, whatever the clock; and a key leaves the index only in a Set of
\* an absent key into a full cache.
C7_NoTTLStep ==
    ttl = 0 =>
        /\ \A t \in Threads :
               (IsGetBody(t) /\ arg[t].k \in DOMAIN items) =>
                   Found(res'[t], elemValue[items[arg[t].k]].value)
        /\ \A k \in DOMAIN items :
               k \notin DOMAIN items' =>
                   \E t \in Threads :
                       /\ IsSetBody(t)
                       /\ arg[t].k \notin DOMAIN items
                       /\ Len(evictList) >= capacity
                       /\ elemValue[Back(evictList)].key = k

\* C7: with ttl = 0 no entry expires; only capacity eviction removes a key.
C7_TTLDisabled == [][C7_NoTTLStep]_vars

\* C7 witness: without a TTL a Get returned presented = true for an entry
\* whose expiredAt is before the clock.
C7_Witness ==
    \E t \in Threads :
        /\ ttl = 0
        /\ pc[t] = "get_unlock"
        /\ res[t].presented
        /\ HasKey(pre[t], arg[t].k)
        /\ EntryOf(pre[t], arg[t].k).expiredAt < now - 1

\* C8, the step: the body of a Set(K, V2) with K in the index leaves the new
\* entry of K at the front, followed by the other entries in their order and
\* unchanged; the index keeps its keys and the size is the same.
C8_OverwriteStep ==
    \A t \in Threads :
        (IsSetBody(t) /\ arg[t].k \in DOMAIN items) =>
            LET es == Entries(Cache)
                k  == arg[t].k
            IN  /\ Entries(Cache)' =
                       <<cached(k, arg[t].v, arg[t].expires)>> \o DropKey(es, k)
                /\ Len(Entries(Cache)') = Len(es)
                /\ DOMAIN items' = DOMAIN items

\* The number of entries of key k among es.
Slots(es, k) == Cardinality({i \in 1..Len(es) : es[i].key = k})

\* C8 as claimed, then: after Set(K, V1), Set(K, V2), the Get(K) called next,
\* once the Set has returned and with the clock not advanced since, returns
\* (V2, true), K being in one slot.
C8_ReadAsClaimedStep ==
    \A t \in Threads :
        (IsGetBody(t) /\ overwrote.k = arg[t].k /\ overwrote.retAt = now) =>
            /\ Found(res'[t], overwrote.v)
            /\ Slots(Entries(Cache)', arg[t].k) = 1

\* C8 as claimed: a Set of a cached key replaces its entry, moves it to the
\* front and evicts nothing, and the Get that follows returns the new value.
C8_AsClaimed == [][C8_OverwriteStep /\ C8_ReadAsClaimedStep]_vars

\* C8 amended, then: after Set(K, V1), Set(K, V2), the Get(K) called next
\* returns (V2, true) when there is no TTL or the clock it reads is not past
\* the expiry that Set stored (the clock the Set read at its call, plus ttl),
\* and (zero value, false) otherwise; either way K is in one slot.
C8_ReadStep ==
    \A t \in Threads :
        (IsGetBody(t) /\ overwrote.k = arg[t].k) =>
            /\ (ttl = 0 \/ now <= overwrote.expires) =>
                   Found(res'[t], overwrote.v)
            /\ (ttl # 0 /\ now > overwrote.expires) => Missed(res'[t])
            /\ Slots(Entries(Cache)', arg[t].k) = 1
            /\ arg[t].k \in DOMAIN items'

\* C8 amended: a Set of a cached key replaces its entry, moves it to the
\* front and evicts nothing; the Get that follows returns the new value
\* while the new expiry has not passed.
C8_Overwrite == [][C8_OverwriteStep /\ C8_ReadStep]_vars

\* C8 witness: with a TTL, in a full cache, a Set(K, V2) that read the clock
\* after it had advanced has replaced the entry of K, of another value, and
\* the Get(K) called next, the clock having advanced again since the Set
\* returned, has returned (V2, true); the cache is still full, K at its front.
C8_Witness ==
    \E t \in SeqThreads :
        /\ pc[t] = "get_unlock"
        /\ ttl # 0
        /\ overwrote.k = arg[t].k
        /\ overwrote.was # overwrote.v
        /\ overwrote.retAt >= 0
        /\ overwrote.retAt < now
        /\ overwrote.expires - ttl > 0
        /\ Found(res[t], overwrote.v)
        /\ Len(evictList) = capacity
        /\ Slots(Entries(Cache), arg[t].k) = 1
        /\ FrontKey(Cache) = arg[t].k

\* C9, the step: the body of a Get(k) with k not in the index returns (zero
\* value, false) and leaves the index and the list as they are.
C9_MissStep ==
    \A t \in Threads :
        (IsGetBody(t) /\ arg[t].k \notin DOMAIN items) =>
            /\ Missed(res'[t])
            /\ UNCHANGED <<items, evictList, elemValue>>

\* C9: a Get of an absent key is a miss that changes nothing.
C9_IdempotentMiss == [][C9_MissStep]_vars

\* C9 witness: a Get of a key not in a full cache has returned.
C9_Witness ==
    \E t \in Threads :
        /\ pc[t] = "get_unlock"
        /\ ~HasKey(pre[t], arg[t].k)
        /\ Len(pre[t]) = capacity
        /\ ~res[t].presented

(* --------------------- the sequential cache of C10 --------------------- *)

\* Set(k, v) run atomically on the entries es, storing the expiry exp.
SeqSet(es, k, v, exp, cap) ==
    IF HasKey(es, k) THEN <<cached(k, v, exp)>> \o DropKey(es, k)
    ELSE IF Len(es) >= cap /\ Len(es) > 0
    THEN <<cached(k, v, exp)>> \o AllButLast(es)
    ELSE <<cached(k, v, exp)>> \o es

\* Whether Get(k) run atomically on the entries es at clock t finds k.
SeqFinds(es, k, t, d) ==
    HasKey(es, k) /\ (d = 0 \/ EntryOf(es, k).expiredAt >= t)

\* Get(k) run atomically on the entries es at clock t: the entries it leaves.
SeqGet(es, k, t, d) ==
    IF SeqFinds(es, k, t, d) THEN <<EntryOf(es, k)>> \o DropKey(es, k) ELSE es

\* Get(k) run atomically on the entries es at clock t: its results.
SeqGetResult(es, k, t, d) ==
    IF SeqFinds(es, k, t, d)
    THEN [value |-> EntryOf(es, k).value, presented |-> TRUE]
    ELSE [value |-> ZeroValue, presented |-> FALSE]

\* C10 as claimed, the step: the body of each call leaves the entries, and
\* returns the results, of that call run atomically on the entries found
\* when the lock was taken, with the clock of that instant.
C10_AtLockStep ==
    \A t \in Threads :
        /\ IsSetBody(t) =>
               Entries(Cache)' = SeqSet(pre[t], arg[t].k, arg[t].v,
                                        lockedAt[t] + ttl, capacity)
        /\ IsGetBody(t) =>
               /\ Entries(Cache)' = SeqGet(pre[t], arg[t].k, lockedAt[t], ttl)
               /\ res'[t] = SeqGetResult(pre[t], arg[t].k, lockedAt[t], ttl)

\* C10 as claimed: every call takes effect, whole, at the instant it takes
\* the lock.
C10_AtLockInstant == [][C10_AtLockStep]_vars

\* C10 amended, the step: the body of each call leaves the entries, and
\* returns the results, of that call run atomically on the entries found
\* when the lock was taken, a Set with the expiry it computed before it took
\* the lock and a Get with the clock it reads under the lock.
C10_InLockOrderStep ==
    \A t \in Threads :
        /\ IsSetBody(t) =>
               Entries(Cache)' = SeqSet(pre[t], arg[t].k, arg[t].v,
                                        arg[t].expires, capacity)
        /\ IsGetBody(t) =>
               /\ Entries(Cache)' = SeqGet(pre[t], arg[t].k, now, ttl)
               /\ res'[t] = SeqGetResult(pre[t], arg[t].k, now, ttl)

\* C10 amended: the calls take effect one at a time in the order they take
\* the lock, each with the clock readings it made itself.
C10_Linearizable == [][C10_InLockOrderStep]_vars

\* C10 witness: a goroutine has run a Set under the lock while the other one,
\* which read the clock earlier for a Set of the same key, waits for the lock.
C10_Witness ==
    \E t, u \in Threads :
        /\ pc[t] = "set_unlock"
        /\ lock = t
        /\ pc[u] = "set_lock"
        /\ arg[u].k = arg[t].k
        /\ arg[u].expires < arg[t].expires
        /\ Len(pre[t]) = capacity


(* ------------------------------ recency -------------------------------- *)

\* C11 as claimed, the step: after the body of a Set(k, v), and after the body
\* of a Get(k) whose key is in the cache, k is the key at the front; a Get of
\* a key that is not in the cache leaves the front as it was.
C11_AnyGetStep ==
    \A t \in Threads :
        /\ IsSetBody(t) => FrontKey(Cache)' = arg[t].k
        /\ (IsGetBody(t) /\ arg[t].k \in DOMAIN items') =>
               FrontKey(Cache)' = arg[t].k
        /\ (IsGetBody(t) /\ arg[t].k \notin DOMAIN items') =>
               FrontKey(Cache)' = FrontKey(Cache)

\* C11 as claimed: the front key is the key of the latest Set or Get of a key
\* that is in the cache.
C11_AccessedAtFront == [][C11_AnyGetStep]_vars

\* C11 amended, the step: after the body of a Set(k, v), and after the body
\* of a Get(k) that returns presented = true, k is the key at the front; a
\* Get that returns presented = false, of an absent key or of an expired
\* entry, leaves the entries and their order as they were.
C11_FrontStep ==
    \A t \in Threads :
        /\ IsSetBody(t) => FrontKey(Cache)' = arg[t].k
        /\ (IsGetBody(t) /\ res'[t].presented) => FrontKey(Cache)' = arg[t].k
        /\ (IsGetBody(t) /\ ~res'[t].presented) =>
               Entries(Cache)' = Entries(Cache)

\* C11 amended, the invariant: the key of the latest Set or successful Get is
\* in the cache, at the front.
C11_FrontIsLastUsed ==
    lastUsed # 0 =>
        /\ lastUsed \in DOMAIN items
        /\ FrontKey(Cache) = lastUsed

\* C11 amended: after any completed Set or Get, the key at the front is the
\* one most recently set by a Set or found by a Get that returned true; a Get
\* that finds its entry expired does not count.
C11_RecencyInvariant == [][C11_FrontStep]_vars /\ []C11_FrontIsLastUsed

\* C11 witness: a Get has found, in a full cache with a TTL, an entry that
\* was not at the front, after an earlier Get or Set had used another key.
C11_Witness ==
    \E t \in SeqThreads :
        /\ pc[t] = "get_unlock"
        /\ res[t].presented
        /\ ttl # 0
        /\ Len(pre[t]) = capacity
        /\ pre[t][1].key # arg[t].k
        /\ lastUsed = arg[t].k
        /\ FrontKey(Cache) = arg[t].k


(* ------------------------------ options -------------------------------- *)

\* The places in opts of the WithCapacity options with n > 0.
ValidCapacities(opts) ==
    {i \in 1..Len(opts) : opts[i].name = "WithCapacity" /\ opts[i].arg > 0}

\* The places in opts of the WithTTL options with d >= 0.
ValidTTLs(opts) ==
    {i \in 1..Len(opts) : opts[i].name = "WithTTL" /\ opts[i].arg >= 0}

\* The greatest of a non-empty set of numbers.
Max(S) == CHOOSE x \in S : \A y \in S : y <= x

\* An option that is nil or carries an invalid argument.
Invalid(opt) ==
    \/ opt.name = "nil"
    \/ opt.name = "WithCapacity" /\ opt.arg <= 0
    \/ opt.name = "WithTTL" /\ opt.arg < 0

\* C12: for the options New was called with, the error is nil, the capacity
\* is that of the last WithCapacity(n) with n > 0, or 128 without one, and the
\* ttl is that of the last WithTTL(d) with d >= 0, or 0 without one; an
\* invalid option leaves what the options before it resolved to unchanged;
\* WithCapacity(-5) or WithCapacity(0) alone give 128, WithTTL(-1) alone 0.
C12_OptionResolution ==
    newOpts.followed =>
        LET opts == newOpts.opts
        IN  /\ New(opts).err = Nil
            /\ capacity = IF ValidCapacities(opts) = {} THEN 128
                          ELSE opts[Max(ValidCapacities(opts))].arg
            /\ ttl = IF ValidTTLs(opts) = {} THEN 0
                     ELSE opts[Max(ValidTTLs(opts))].arg
            /\ \A i \in 1..Len(opts) :
                   Invalid(opts[i]) =>
                       ApplyOptions(SubSeq(opts, 1, i), ZeroOptions)
                           = ApplyOptions(SubSeq(opts, 1, i - 1), ZeroOptions)
            /\ opts \in {<<OptCapacity(-5)>>, <<OptCapacity(0)>>} =>
                   capacity = 128
            /\ opts = <<OptTTL(-1)>> => ttl = 0

\* C12 witness: a cache made with a valid capacity followed by an invalid
\* one has kept the valid one, and a Set has stored an entry in it.
C12_Witness ==
    /\ newOpts = Followed(<<OptCapacity(SmallCap), OptCapacity(-5)>>)
    /\ capacity = SmallCap
    /\ ttl = 0
    /\ Len(evictList) = 1


(* ------------------------------- expiry -------------------------------- *)

\* The entry of key k in the cache c (k is in the index).
Stored(c, k) == c.elemValue[c.items[k]]

\* C13, the step: with a TTL, the body of a Get(k) that finds k in the index
\* with expiredAt before the clock returns (zero value, false) and leaves the
\* index, the list, its order and the entry of k as they are.
C13_ExpiredStep ==
    \A t \in Threads :
        (IsGetBody(t) /\ ttl # 0 /\ arg[t].k \in DOMAIN items
            /\ Stored(Cache, arg[t].k).expiredAt < now) =>
            /\ Missed(res'[t])
            /\ UNCHANGED <<items, evictList, elemValue>>
            /\ Entries(Cache)' = Entries(Cache)
            /\ arg[t].k \in DOMAIN items'
            /\ Stored(Cache, arg[t].k)' = Stored(Cache, arg[t].k)
            /\ Len(evictList') = Len(evictList)

\* C13: a Get of an expired entry is a miss that evicts and moves nothing.
C13_ExpiredNotEvicted == [][C13_ExpiredStep]_vars

\* C13 witness: a Get has missed on an expired entry of a full cache that is
\* not at the front; the entry is still there, behind the front.
C13_Witness ==
    \E t \in SeqThreads :
        /\ pc[t] = "get_unlock"
        /\ ttl # 0
        /\ ~res[t].presented
        /\ Len(pre[t]) = capacity
        /\ HasKey(pre[t], arg[t].k)
        /\ expired(EntryOf(pre[t], arg[t].k), now)
        /\ pre[t][1].key # arg[t].k
        /\ Entries(Cache) = pre[t]

\* C14, the step: with a TTL, the body of a Get(k) with k in the index is a
\* miss exactly when the entry's expiredAt is before the clock it reads; at
\* clock = expiredAt, and before, it returns (value, true).
C14_BoundaryStep ==
    \A t \in Threads :
        (IsGetBody(t) /\ ttl # 0 /\ arg[t].k \in DOMAIN items) =>
            LET e == Stored(Cache, arg[t].k)
            IN  /\ ~res'[t].presented <=> e.expiredAt < now
                /\ e.expiredAt < now => Missed(res'[t])
                /\ e.expiredAt = now => Found(res'[t], e.value)
                /\ e.expiredAt > now => Found(res'[t], e.value)

\* C14: an entry is expired only when its expiredAt is strictly before now.
C14_ExpiryBoundary == [][C14_BoundaryStep]_vars

\* C14 witness: with a TTL, a Get has returned presented = true at the very
\* clock of the entry's expiredAt, after the clock had advanced.
C14_Witness ==
    \E t \in SeqThreads :
        /\ pc[t] = "get_unlock"
        /\ ttl # 0
        /\ res[t].presented
        /\ now > 0
        /\ arg[t].k \in DOMAIN items
        /\ Stored(Cache, arg[t].k).expiredAt = now

\* C15, the steps: the call of a Set computes expires = clock + ttl; the body
\* of a Set(k, v) with k in the index, expired or not, stores that expiry; the
\* body of a Get changes no entry (so no expiredAt), hit or miss; and a Get(k)
\* finds the entry exactly while the clock is not past its expiredAt.
C15_ExpiryStep ==
    \A t \in Threads :
        /\ IsSetCall(t) => arg'[t].expires = now + ttl
        /\ (IsSetBody(t) /\ arg[t].k \in DOMAIN items) =>
               /\ arg[t].k \in DOMAIN items'
               /\ Stored(Cache, arg[t].k)'.expiredAt = arg[t].expires
        /\ IsGetBody(t) =>
               /\ DOMAIN items' = DOMAIN items
               /\ \A k \in DOMAIN items : Stored(Cache, k)' = Stored(Cache, k)
        /\ (IsGetBody(t) /\ ttl # 0 /\ arg[t].k \in DOMAIN items) =>
               (res'[t].presented
                    <=> now <= Stored(Cache, arg[t].k).expiredAt)

\* C15: only Set gives an entry its expiry, the clock it read plus ttl.
C15_ExpiryResetOnlyBySet == [][C15_ExpiryStep]_vars

\* C15 witness: with a TTL, a Set has replaced an entry that was expired at
\* the clock the Set read, by one that is not expired.
C15_Witness ==
    \E t \in SeqThreads :
        /\ pc[t] = "set_unlock"
        /\ ttl # 0
        /\ HasKey(pre[t], arg[t].k)
        /\ EntryOf(pre[t], arg[t].k).expiredAt < arg[t].expires - ttl
        /\ arg[t].k \in DOMAIN items
        /\ Stored(Cache, arg[t].k).expiredAt = arg[t].expires
        /\ Stored(Cache, arg[t].k).expiredAt >= now


(* ----------------------------- termination ----------------------------- *)

\* The goroutine t is in a critical section: it holds the mutex.
InCritical(t) ==
    pc[t] \in {"set_body", "set_unlock", "get_body", "get_unlock"}

\* C16, mutual exclusion: at most one goroutine is in a critical section,
\* and it is the holder of the mutex.
C16_MutualExclusion ==
    /\ \A t, u \in Threads : (InCritical(t) /\ InCritical(u)) => t = u
    /\ \A t \in Threads : InCritical(t) <=> lock = t

\* C16, no deadlock: while the mutex is held, its holder can take a step;
\* while it is free, every goroutine waiting for it can take it.
C16_CanProgress ==
    /\ lock # Nil =>
           (ENABLED Runs(lock, "set_body", "set_unlock")
               \/ ENABLED (SetUnlock(lock) /\ NoHistory)
               \/ ENABLED Runs(lock, "get_body", "get_unlock")
               \/ ENABLED (GetUnlock(lock) /\ NoHistory))
    /\ lock = Nil =>
           \A t \in Threads :
               /\ pc[t] = "set_lock" => ENABLED (SetLock(t) /\ NoHistory)
               /\ pc[t] = "get_lock" => ENABLED (GetLock(t) /\ NoHistory)

\* C16: under fair scheduling every call of Set or Get takes the mutex, runs
\* its body, releases the mutex and returns; one goroutine at a time is in a
\* critical section and no state is a deadlock.
C16_Termination ==
    /\ \A t \in Threads :
           /\ (pc[t] \in {"set_lock", "get_lock"}) ~> (lock = t)
           /\ (lock = t) ~> (lock # t /\ pc[t] = "idle")
           /\ (pc[t] # "idle") ~> (pc[t] = "idle")
    /\ []C16_MutualExclusion
    /\ []C16_CanProgress

\* C16 witness: a goroutine is in the body of a Set that evicts, holding the
\* mutex, while the other one waits for the mutex in a Get.
C16_Witness ==
    \E t, u \in Threads :
        /\ pc[t] = "set_body"
        /\ lock = t
        /\ Len(evictList) = capacity
        /\ arg[t].k \notin DOMAIN items
        /\ pc[u] = "get_lock"
        /\ arg[u].k \in DOMAIN items


(* ------------------------------- values -------------------------------- *)

\* C17, the step: the body of a Get(k) that returns presented = true returns
\* the value of the latest Set(k, .) that ran under the lock before it; one
\* that returns presented = false returns the zero value.
C17_ValueStep ==
    \A t \in Threads :
        IsGetBody(t) =>
            /\ res'[t].presented =>
                   /\ lastSet[arg[t].k].set
                   /\ res'[t].value = lastSet[arg[t].k].v
            /\ ~res'[t].presented => res'[t].value = ZeroValue

\* C17, the entries: every entry of the cache holds its key, and the value
\* and the expiry of the latest Set of that key, both of the same call.
C17_SameSet ==
    \A k \in DOMAIN items :
        /\ Stored(Cache, k).key = k
        /\ lastSet[k].set
        /\ Stored(Cache, k).value = lastSet[k].v
        /\ Stored(Cache, k).expiredAt = lastSet[k].readAt + ttl

\* C17: a Get returns the value of the latest Set of its key in the order of
\* the lock, or the zero value with false; never an expired or mixed entry.
C17_ValueCorrectness == [][C17_ValueStep]_vars /\ []C17_SameSet

\* C17 witness: a Get has returned (v, true), v not the zero value, the value
\* of the Set that took the lock last, while the other goroutine, which read
\* the clock earlier for a Set of the same key with another value, waits.
C17_Witness ==
    \E t, u \in Threads :
        /\ pc[t] = "get_unlock"
        /\ res[t].presented
        /\ res[t].value # ZeroValue
        /\ res[t].value = lastSet[arg[t].k].v
        /\ pc[u] = "set_lock"
        /\ arg[u].k = arg[t].k
        /\ arg[u].v # res[t].value
        /\ arg[u].expires < Stored(Cache, arg[t].k).expiredAt


(* -------------------------------- size --------------------------------- *)

\* C18, the step: no step makes the cache smaller; the body of a Set of a
\* key not in the index, below capacity, adds one entry; every other step
\* leaves the number of entries as it is; a full cache stays full.
C18_SizeStep ==
    LET grows == \E t \in Threads :
                     /\ IsSetBody(t)
                     /\ arg[t].k \notin DOMAIN items
                     /\ Len(evictList) < capacity
    IN  /\ Len(evictList') >= Len(evictList)
        /\ Cardinality(DOMAIN items') >= Cardinality(DOMAIN items)
        /\ grows => Len(evictList') = Len(evictList) + 1
        /\ ~grows => Len(evictList') = Len(evictList)
        /\ Len(evictList) = capacity => Len(evictList') = capacity

\* C18: the number of entries never decreases, expired or not.
C18_SizeNeverShrinks == [][C18_SizeStep]_vars

\* C18 witness: with a TTL, a Set of a key not in the index has run on a full
\* cache all of whose entries were expired, and the cache is still full.
C18_Witness ==
    \E t \in SeqThreads :
        /\ pc[t] = "set_unlock"
        /\ ttl # 0
        /\ Len(pre[t]) = capacity
        /\ ~HasKey(pre[t], arg[t].k)
        /\ \A i \in 1..Len(pre[t]) : expired(pre[t][i], arg[t].expires - ttl)
        /\ Len(evictList) = capacity


(* ----------------------------- not found ------------------------------- *)

\* C19, the step: with a TTL (and without), the body of a Get(k), after a
\* Get(k) that returned false and no Set(k, .) under the lock since, returns
\* (zero value, false).
C19_StaysMissedStep ==
    \A t \in Threads :
        (IsGetBody(t) /\ missed[arg[t].k] > 0) => Missed(res'[t])

\* C19: a key that a Get did not find, absent or expired, is not found again
\* before a Set of that key takes effect.
C19_StaysNotFound == [][C19_StaysMissedStep]_vars

\* C19 witness: with a TTL, a Get has missed on an entry that is still in
\* the index, expired, behind an entry that is not expired, after an earlier
\* Get of the key had missed, with no Set of the key since.
C19_Witness ==
    \E t \in SeqThreads :
        /\ pc[t] = "get_unlock"
        /\ ttl # 0
        /\ ~res[t].presented
        /\ HasKey(pre[t], arg[t].k)
        /\ expired(EntryOf(pre[t], arg[t].k), now)
        /\ pre[t][1].key # arg[t].k
        /\ ~expired(pre[t][1], now)
        /\ missed[arg[t].k] = 2

=============================================================================
